---- MODULE Spec2Model ----
(***************************************************************************)
(* Locate918 LLM service: the FastAPI application of app/main.py and the   *)
(* Model Gateway of app/services/gemini.py (parse_user_intent,             *)
(* generate_chat_response, normalize_events).                              *)
(*                                                                         *)
(* Text is a sequence of tokens (Python str); a Python value is a tagged   *)
(* record (None, str, number, bool, list, dict).                           *)
(***************************************************************************)
EXTENDS Integers, Sequences, FiniteSets, TLC

VARIABLES
    api_key,    \* os.getenv("GEMINI_API_KEY") after load_dotenv()
    app,        \* the FastAPI application of main.py: "stopped" | "serving"
    gemini,     \* module app.services.gemini: "unimported" | "ready" | "failed"
    pc,         \* the gateway call: "idle" | "await" | "returned" | "raised"
    op,         \* the gateway operation of the call
    args,       \* its arguments
    sent,       \* the requests this call issued to the model capability
    response,   \* what the model capability answered
    result,     \* the value returned (or the exception raised) to the caller
    http        \* the last HTTP exchange of the application

vars == <<api_key, app, gemini, pc, op, args, sent, response, result, http>>

-----------------------------------------------------------------------------
(* Bounds                                                                  *)

MaxTokens == 2      \* model output texts: every token sequence up to this length
MaxHistory == 2     \* conversation histories up to this many turns
MaxHtml == 1        \* raw_html inputs of Spec up to this many characters
MaxOver == 2        \* raw_html inputs of SpecTrunc: this far around the limit
MaxParts == 2       \* parts of a chat response of the model

-----------------------------------------------------------------------------
(* Python values                                                           *)

None == [t |-> "none"]
Str(s) == [t |-> "str", v |-> s]
Num(n) == [t |-> "num", v |-> n]
Bool(b) == [t |-> "bool", v |-> b]
List(s) == [t |-> "list", v |-> s]
Dict(f) == [t |-> "dict", v |-> f]
Raised(e) == [t |-> "exception", v |-> e]

EmptyMap == <<>>
Put(m, k, x) == [j \in DOMAIN m \cup {k} |-> IF j = k THEN x ELSE m[j]]

-----------------------------------------------------------------------------
(* json.loads over token sequences                                         *)

StringTokens == {"\"q\"", "\"zip\"", "\"jazz\"", "\"category\""}
LiteralTokens == {"1", "null", "true"}
Punctuation == {"{", "}", "[", "]", ",", ":"}
Garbage == {"x"}

StringOf(tok) ==
    CASE tok = "\"q\"" -> "q"
      [] tok = "\"zip\"" -> "zip"
      [] tok = "\"jazz\"" -> "jazz"
      [] tok = "\"category\"" -> "category"

TokenValue(tok) ==
    CASE tok = "1" -> Num(1)
      [] tok = "null" -> None
      [] tok = "true" -> Bool(TRUE)
      [] tok \in StringTokens -> Str(<<StringOf(tok)>>)

Fail == [ok |-> FALSE]
Ok(x, rest) == [ok |-> TRUE, val |-> x, rest |-> rest]

RECURSIVE ParseValue(_)
RECURSIVE ParseElements(_, _)
RECURSIVE ParseMembers(_, _)

ParseValue(ts) ==
    IF ts = <<>> THEN Fail
    ELSE LET h == Head(ts)
             r == Tail(ts)
         IN  CASE h \in StringTokens \cup LiteralTokens -> Ok(TokenValue(h), r)
               [] h = "[" -> IF r # <<>> /\ Head(r) = "]"
                             THEN Ok(List(<<>>), Tail(r))
                             ELSE ParseElements(r, <<>>)
               [] h = "{" -> IF r # <<>> /\ Head(r) = "}"
                             THEN Ok(Dict(EmptyMap), Tail(r))
                             ELSE ParseMembers(r, EmptyMap)
               [] OTHER -> Fail

ParseElements(ts, acc) ==
    LET e == ParseValue(ts)
    IN  IF ~e.ok THEN Fail
        ELSE IF e.rest = <<>> THEN Fail
        ELSE IF Head(e.rest) = "," THEN ParseElements(Tail(e.rest), Append(acc, e.val))
        ELSE IF Head(e.rest) = "]" THEN Ok(List(Append(acc, e.val)), Tail(e.rest))
        ELSE Fail

ParseMembers(ts, acc) ==
    IF Len(ts) < 3 THEN Fail
    ELSE IF ts[1] \notin StringTokens \/ ts[2] # ":" THEN Fail
    ELSE LET e == ParseValue(SubSeq(ts, 3, Len(ts)))
         IN  IF ~e.ok THEN Fail
             ELSE IF e.rest = <<>> THEN Fail
             ELSE LET m == Put(acc, StringOf(ts[1]), e.val)
                  IN  IF Head(e.rest) = "," THEN ParseMembers(Tail(e.rest), m)
                      ELSE IF Head(e.rest) = "}" THEN Ok(Dict(m), Tail(e.rest))
                      ELSE Fail

\* json.loads(text): the value, or JSONDecodeError (ok = FALSE)
json_loads(text) ==
    LET r == ParseValue(text)
    IN  IF r.ok /\ r.rest = <<>> THEN [ok |-> TRUE, val |-> r.val] ELSE [ok |-> FALSE]

-----------------------------------------------------------------------------
(* Inputs                                                                  *)

EnumTokens == {"{", "}", "[", "]", ",", ":", "\"q\"", "1", "x"}

SeqsUpTo(S, n) == UNION {[1..k -> S] : k \in 0..n}

Fixtures ==
    { <<"{", "\"q\"", ":", "\"jazz\"", "}">>,
      <<"{", "\"category\"", ":", "\"jazz\"", ",", "\"q\"", ":", "\"jazz\"", "}">>,
      <<"{", "\"q\"", ":", "\"jazz\"", ",", "\"zip\"", ":", "1", "}">>,
      <<"{", "\"zip\"", ":", "true", "}">>,
      <<"{", "\"q\"", ":", "null", "}">>,
      <<"{", "\"q\"", ":", "1", ",", "\"q\"", ":", "null", "}">>,
      <<"{", "\"q\"", ":", "1", ",", "}">>,
      <<"{", "\"q\"", ":", "{", "}", "}">>,
      <<"[", "{", "\"q\"", ":", "1", "}", "]">>,
      <<"[", "{", "\"q\"", ":", "1", "}", ",", "{", "}", "]">>,
      <<"[", "1", ",", "1">>,
      <<"\"jazz\"">>, <<"null">>, <<"true">> }

\* the texts the model capability may answer with
ResponseTexts == SeqsUpTo(EnumTokens, MaxTokens) \cup Fixtures

Messages == {<<>>, <<"jazz", "tonight">>}
SourceUrls == {<<"https://a">>, <<"https://b">>}

Turns ==
    { [role |-> "user", parts |-> << <<"hi">> >>],
      [role |-> "model", parts |-> << <<"hello">> >>],
      [role |-> "user", parts |-> << <<"any">>, <<"events">> >>] }
Histories == SeqsUpTo(Turns, MaxHistory)
Profiles == {EmptyMap, [name |-> Str(<<"Ada">>)]}

\* raw_html of n characters, "<" at every p-th position
Html(n, p) == [i \in 1..n |-> IF i % p = 0 THEN "<" ELSE "a"]

-----------------------------------------------------------------------------
(* The model capability (google.generativeai)                              *)

TextPart(text) == [kind |-> "text", text |-> text]
FunctionCallPart(name, fargs) == [kind |-> "function_call", name |-> name, args |-> fargs]

NoResponse == [kind |-> "none"]
ApiError == [kind |-> "error"]
Response(parts) == [kind |-> "response", parts |-> parts]

JsonResponses == {Response(<<>>)} \cup {Response(<<TextPart(t)>>) : t \in ResponseTexts}

ChatParts ==
    { TextPart(<<>>), TextPart(<<"Sure">>),
      FunctionCallPart("search_events", EmptyMap),
      FunctionCallPart("search_events", [category |-> Str(<<"concerts">>)]) }
ChatResponses == {Response(ps) : ps \in SeqsUpTo(ChatParts, MaxParts)}

RECURSIVE JoinTexts(_, _)
JoinTexts(parts, sep) ==
    IF parts = <<>> THEN <<>>
    ELSE IF Len(parts) = 1 THEN parts[1].text
    ELSE parts[1].text \o sep \o JoinTexts(Tail(parts), sep)

TextOk(text) == [raised |-> FALSE, text |-> text]
TextError == [raised |-> TRUE]

\* response.text: the quick accessor. It raises ValueError for a response with no
\* parts or with a part that is not text; for several text parts the installed
\* SDK version decides (raise, concatenate, or join with a newline).
ResponseText(resp) ==
    IF resp.parts = <<>> THEN {TextError}
    ELSE IF \E i \in 1..Len(resp.parts) : resp.parts[i].kind # "text" THEN {TextError}
    ELSE IF Len(resp.parts) = 1 THEN {TextOk(resp.parts[1].text)}
    ELSE {TextError, TextOk(JoinTexts(resp.parts, <<>>)), TextOk(JoinTexts(resp.parts, <<"\n">>))}

-----------------------------------------------------------------------------
(* app/services/gemini.py                                                  *)

KeyValues == {"absent", "", "AIza"}
KeyMissing(k) == k = "absent" \/ k = ""

SearchParamsKeys ==
    {"q", "category", "start_date", "end_date", "price_max", "location",
     "family_friendly", "outdoor"}

search_events_tool_schema == [name |-> "search_events", properties |-> SearchParamsKeys]
gemini_tools == <<search_events_tool_schema>>

HtmlLimit == 30000

SliceTo_OffByOne(s, n) == SubSeq(s, 1, IF Len(s) < n THEN Len(s) ELSE n - 1)

\* s[:n]
SliceTo(s, n) == SubSeq(s, 1, IF Len(s) < n THEN Len(s) ELSE n)

JsonRequest(prompt) ==
    [api |-> "generate_content_async", model |-> "gemini-2.0-flash-exp",
     mime |-> "application/json", prompt |-> prompt]

ParseIntentPrompt(message) ==
    [template |-> "Extract search parameters from this query", message |-> message,
     keys |-> SearchParamsKeys]

ParseIntentFallback_QueryKey(message) == Dict([query |-> Str(message)])

\* except json.JSONDecodeError: return {"q": message}
ParseIntentFallback(message) == Dict([q |-> Str(message)])

NormalizePrompt(raw_html, source_url) ==
    [template |-> "Extract events from the following HTML", source_url |-> source_url,
     html |-> SliceTo(raw_html, HtmlLimit),
     trailer |-> "# Truncating to keep prompts manageable"]

NormalizeFallback == List(<<>>)

Quote(s) == CASE s = "name" -> "\"name\"" [] s = "Ada" -> "\"Ada\"" [] OTHER -> "\"?\""

\* json.dumps of a flat mapping of strings (user_profile)
RECURSIVE DumpMembers(_, _)
DumpMembers(m, keys) ==
    IF keys = {} THEN <<>>
    ELSE LET k == CHOOSE j \in keys : TRUE
             rest == DumpMembers(m, keys \ {k})
         IN  <<Quote(k), ":", Quote(m[k].v[1])>>
             \o (IF rest = <<>> THEN <<>> ELSE <<",">> \o rest)
json_dumps(m) == <<"{">> \o DumpMembers(m, DOMAIN m) \o <<"}">>

SystemInstruction(user_profile) ==
    [persona |-> "You are Tully", user_profile |-> json_dumps(user_profile)]

UserTurn(message) == [role |-> "user", parts |-> <<message>>]

ChatContents_NewestFirst(history, message) == <<UserTurn(message)>> \o history

\* model.start_chat(history=history) then chat.send_message_async(message)
ChatContents(history, message) == Append(history, UserTurn(message))

ChatRequest(message, history, user_profile) ==
    [api |-> "send_message_async", model |-> "gemini-2.0-flash-exp",
     tools |-> gemini_tools, system_instruction |-> SystemInstruction(user_profile),
     contents |-> ChatContents(history, message)]

\* response.parts and response.parts[0].function_call
HasFunctionCall(resp) == resp.parts # <<>> /\ resp.parts[1].kind = "function_call"

\* dict(fc.args)
DictOf(m) == [k \in DOMAIN m |-> m[k]]

ToolCallResult(fc) ==
    Dict([text |-> None,
          tool_call |-> Dict([name |-> Str(<<fc.name>>), args |-> Dict(DictOf(fc.args))])])

TextResult_EmptyAsNone(text) ==
    Dict([text |-> IF text = <<>> THEN None ELSE Str(text), tool_call |-> None])

\* return {"text": response.text, "tool_call": None}
TextResult(text) == Dict([text |-> Str(text), tool_call |-> None])

\* json.loads(response.text) with the fallback of parse_user_intent
ParseUserIntentReturn(message, text) ==
    LET r == json_loads(text)
    IN  IF r.ok THEN r.val ELSE ParseIntentFallback(message)

\* json.loads(response.text) with the fallback of normalize_events
NormalizeEventsReturn(text) ==
    LET r == json_loads(text)
    IN  IF r.ok THEN r.val ELSE NormalizeFallback

\* module import: load_dotenv(), the API_KEY check, genai.configure
ImportGemini ==
    /\ gemini = "unimported"
    /\ gemini' = IF KeyMissing(api_key) THEN "failed" ELSE "ready"
    /\ UNCHANGED <<api_key, app, pc, op, args, sent, response, result, http>>

Begin(name, a, request) ==
    /\ gemini = "ready"
    /\ pc = "idle"
    /\ pc' = "await"
    /\ op' = name
    /\ args' = a
    /\ sent' = <<request>>
    /\ response' = NoResponse
    /\ result' = None
    /\ UNCHANGED <<api_key, app, gemini, http>>

CallParseUserIntent(message) ==
    Begin("parse_user_intent", [message |-> message],
          JsonRequest(ParseIntentPrompt(message)))

CallGenerateChatResponse(message, history, user_profile) ==
    Begin("generate_chat_response",
          [message |-> message, history |-> history, user_profile |-> user_profile],
          ChatRequest(message, history, user_profile))

CallNormalizeEvents(raw_html, source_url) ==
    Begin("normalize_events", [raw_html |-> raw_html, source_url |-> source_url],
          JsonRequest(NormalizePrompt(raw_html, source_url)))

Finish(resp, outcome, value) ==
    /\ pc' = outcome
    /\ response' = resp
    /\ result' = value
    /\ UNCHANGED <<api_key, app, gemini, op, args, sent, http>>

ModelFails_Retry ==
    /\ pc = "await"
    /\ sent' = Append(sent, sent[1])
    /\ UNCHANGED <<api_key, app, gemini, pc, op, args, response, result, http>>

\* the awaited model call fails (network, auth, quota): nothing catches it
ModelFails ==
    /\ pc = "await"
    /\ Finish(ApiError, "raised", Raised("ApiError"))

\* the caller has the value (or the exception): the call is over
Return ==
    /\ pc \in {"returned", "raised"}
    /\ pc' = "idle"
    /\ op' = "none"
    /\ args' = <<>>
    /\ sent' = <<>>
    /\ response' = NoResponse
    /\ result' = None
    /\ UNCHANGED <<api_key, app, gemini, http>>

ParseUserIntentResumes(responses) ==
    /\ pc = "await"
    /\ op = "parse_user_intent"
    /\ \E resp \in responses : \E t \in ResponseText(resp) :
          IF t.raised
          THEN Finish(resp, "raised", Raised("ValueError"))
          ELSE Finish(resp, "returned", ParseUserIntentReturn(args.message, t.text))

GenerateChatResponseResumes(responses) ==
    /\ pc = "await"
    /\ op = "generate_chat_response"
    /\ \E resp \in responses :
          IF HasFunctionCall(resp)
          THEN Finish(resp, "returned", ToolCallResult(resp.parts[1]))
          ELSE \E t \in ResponseText(resp) :
                  IF t.raised
                  THEN Finish(resp, "raised", Raised("ValueError"))
                  ELSE Finish(resp, "returned", TextResult(t.text))

NormalizeEventsResumes(responses) ==
    /\ pc = "await"
    /\ op = "normalize_events"
    /\ \E resp \in responses : \E t \in ResponseText(resp) :
          IF t.raised
          THEN Finish(resp, "raised", Raised("ValueError"))
          ELSE Finish(resp, "returned", NormalizeEventsReturn(t.text))

-----------------------------------------------------------------------------
(* app/main.py                                                             *)

Routes == {<<"GET", "/">>, <<"GET", "/health">>, <<"POST", "/api/chat">>,
           <<"POST", "/api/search">>}

Exchange(method, path, body, status, resp, calls) ==
    [method |-> method, path |-> path, body |-> body, status |-> status,
     resp |-> resp, calls |-> calls]
NoExchange == Exchange("", "", None, 0, None, <<>>)

HttpMessage == <<"jazz", "tonight">>
ConversationIds == {None, Str(<<>>), Str(<<"c1">>)}
ChatBodies ==
    {EmptyMap, [message |-> Str(HttpMessage)]}
    \cup {[message |-> Str(HttpMessage), conversation_id |-> c] : c \in ConversationIds}
SearchBodies == {EmptyMap, [query |-> Str(HttpMessage)]}
NormalizeBodies == {[raw_html |-> Str(<<"<", "a">>), source_url |-> Str(<<"https://a">>)]}

\* the body has every required field of the request model
Validates(body, required) == required \subseteq DOMAIN body

\* x or y
Truthy(x) == x # None /\ (x.t = "str" => x.v # <<>>)
OrElse(x, y) == IF Truthy(x) THEN x ELSE y

Field(body, k) == IF k \in DOMAIN body THEN body[k] ELSE None

ValidationError == Dict([detail |-> Str(<<"field required">>)])
NotFound == Dict([detail |-> Str(<<"Not Found">>)])

\* uvicorn loads app.main: FastAPI(), the request models, the middleware, the routes
StartService ==
    /\ app = "stopped"
    /\ app' = "serving"
    /\ UNCHANGED <<api_key, gemini, pc, op, args, sent, response, result, http>>

Respond(method, path, body, status, resp) ==
    /\ app = "serving"
    /\ http' = Exchange(method, path, Dict(body), status, resp, <<>>)
    /\ UNCHANGED <<api_key, app, gemini, pc, op, args, sent, response, result>>

root ==
    Respond("GET", "/", EmptyMap, 200,
            Dict([status |-> Str(<<"online">>), service |-> Str(<<"Locate918 LLM">>)]))

health_check ==
    Respond("GET", "/health", EmptyMap, 200, Dict([status |-> Str(<<"ok">>)]))

chat(body) ==
    IF ~Validates(body, {"message"})
    THEN Respond("POST", "/api/chat", body, 422, ValidationError)
    ELSE Respond("POST", "/api/chat", body, 200,
                 Dict([message |-> Str(<<"Tully is online! (This is a placeholder response.)">>),
                       events |-> List(<<>>),
                       conversation_id |->
                           OrElse(Field(body, "conversation_id"), Str(<<"test">>))]))

search(body) ==
    IF ~Validates(body, {"query"})
    THEN Respond("POST", "/api/search", body, 422, ValidationError)
    ELSE Respond("POST", "/api/search", body, 200,
                 Dict([events |-> List(<<>>),
                       parsed |-> Dict([query |-> body.query])]))

\* a request no route of the application matches
Unrouted(method, path, body) ==
    /\ <<method, path>> \notin Routes
    /\ Respond(method, path, body, 404, NotFound)

-----------------------------------------------------------------------------
(* Specifications                                                          *)

Init ==
    /\ api_key \in KeyValues
    /\ app = "stopped"
    /\ gemini = "unimported"
    /\ pc = "idle"
    /\ op = "none"
    /\ args = <<>>
    /\ sent = <<>>
    /\ response = NoResponse
    /\ result = None
    /\ http = NoExchange

SmallHtml == {Html(n, 2) : n \in 0..MaxHtml}

Next ==
    \/ StartService
    \/ ImportGemini
    \/ \E m \in Messages : CallParseUserIntent(m)
    \/ \E m \in Messages, h \in Histories, u \in Profiles : CallGenerateChatResponse(m, h, u)
    \/ \E r \in SmallHtml, u \in SourceUrls : CallNormalizeEvents(r, u)
    \/ ModelFails
    \/ Return
    \/ ParseUserIntentResumes(JsonResponses)
    \/ GenerateChatResponseResumes(ChatResponses)
    \/ NormalizeEventsResumes(JsonResponses)
    \/ root
    \/ health_check
    \/ \E b \in ChatBodies : chat(b)
    \/ \E b \in SearchBodies : search(b)
    \/ \E b \in NormalizeBodies : Unrouted("POST", "/api/normalize", b)

Spec == Init /\ [][Next]_vars

\* raw_html around the truncation limit of normalize_events
BoundaryHtml ==
    {Html(n, p) : n \in (0..MaxHtml) \cup ((HtmlLimit - MaxOver)..(HtmlLimit + MaxOver)),
                  p \in {2, 7}}
TruncResponses == {Response(<<TextPart(t)>>) : t \in {<<"x">>, <<"[", "]">>, <<"1">>}}

NextTrunc ==
    \/ ImportGemini
    \/ \E r \in BoundaryHtml, u \in SourceUrls : CallNormalizeEvents(r, u)
    \/ ModelFails
    \/ Return
    \/ NormalizeEventsResumes(TruncResponses)

SpecTrunc == Init /\ [][NextTrunc]_vars

-----------------------------------------------------------------------------
(* Properties                                                              *)

Finished == pc \in {"returned", "raised"}

\* the model answered with one text part: its text is the model's output text
HasOutputText ==
    /\ response.kind = "response"
    /\ Len(response.parts) = 1
    /\ response.parts[1].kind = "text"
OutputText == response.parts[1].text

\* C1: every call of generate_chat_response that returns has exactly one of text
\* and tool_call non-null.
C1_ExactlyOneOfTextToolCall ==
    (op = "generate_chat_response" /\ pc = "returned") =>
        /\ result.t = "dict"
        /\ DOMAIN result.v = {"text", "tool_call"}
        /\ (result.v.text = None) # (result.v.tool_call = None)

C1_Witness_EmptyText ==
    /\ op = "generate_chat_response"
    /\ pc = "returned"
    /\ response.parts = <<TextPart(<<>>)>>
    /\ result.v.text = Str(<<>>)
    /\ result.v.tool_call = None

\* C2: when the model's output text is not valid JSON, parse_user_intent returns
\* exactly {q: message} and no error reaches the caller.
C2_InvalidJsonFallsBackToQuery ==
    (op = "parse_user_intent" /\ Finished /\ HasOutputText /\ ~json_loads(OutputText).ok) =>
        /\ pc = "returned"
        /\ result = Dict([q |-> Str(args.message)])

C2_Witness_TrailingComma ==
    /\ op = "parse_user_intent"
    /\ pc = "returned"
    /\ HasOutputText
    /\ OutputText = <<"{", "\"q\"", ":", "1", ",", "}">>
    /\ args.message = <<"jazz", "tonight">>
    /\ result = Dict([q |-> Str(<<"jazz", "tonight">>)])

\* C3: when the model's output is invalid JSON or valid JSON that is not an array,
\* normalize_events returns an empty sequence and never fails.
C3_NonArrayYieldsEmptySequence ==
    (op = "normalize_events" /\ Finished /\ HasOutputText
        /\ (~json_loads(OutputText).ok \/ json_loads(OutputText).val.t # "list")) =>
        /\ pc = "returned"
        /\ result = List(<<>>)

\* C4: the HTML normalize_events passes to the model is the first 30,000 characters
\* of raw_html, and the whole of raw_html when it has 30,000 characters or fewer.
C4_PromptHtmlIsFirst30000 ==
    (op = "normalize_events" /\ pc # "idle") =>
        LET h == sent[1].prompt.html
            r == args.raw_html
        IN  /\ Len(h) = (IF Len(r) > 30000 THEN 30000 ELSE Len(r))
            /\ \A i \in 1..Len(h) : h[i] = r[i]

C4_Witness_Truncated ==
    /\ op = "normalize_events"
    /\ pc = "await"
    /\ Len(args.raw_html) = 30002
    /\ Len(sent[1].prompt.html) = 30000
    /\ args.raw_html[30000] # args.raw_html[30001]

\* C5: the model receives the n turns of history in their order, unmodified, and
\* the new message after them as the newest turn.
C5_HistoryThenMessage ==
    (op = "generate_chat_response" /\ pc # "idle") =>
        LET c == sent[1].contents
            h == args.history
        IN  /\ Len(c) = Len(h) + 1
            /\ \A i \in 1..Len(h) : c[i] = h[i]
            /\ c[Len(h) + 1] = [role |-> "user", parts |-> <<args.message>>]

C5_Witness_TwoTurns ==
    /\ op = "generate_chat_response"
    /\ pc = "await"
    /\ Len(args.history) = 2
    /\ args.history[1] # args.history[2]
    /\ Len(sent[1].contents) = 3
    /\ sent[1].contents[3].parts = <<args.message>>

\* the Model Gateway operation of a POST route
GatewayRoutes == {"/api/chat", "/api/search", "/api/normalize"}
GatewayOperation(path) ==
    CASE path = "/api/chat" -> "generate_chat_response"
      [] path = "/api/search" -> "parse_user_intent"
      [] path = "/api/normalize" -> "normalize_events"

\* C6: for every POST route and every body that passes validation, the handler
\* invokes the route's Model Gateway operation and answers 200 with its result.
C6_RoutesInvokeGateway ==
    (http.method = "POST" /\ http.path \in GatewayRoutes /\ http.status # 422) =>
        /\ http.status = 200
        /\ Len(http.calls) = 1
        /\ http.calls[1].op = GatewayOperation(http.path)
        /\ http.resp = http.calls[1].result

\* C7: with GEMINI_API_KEY absent the service fails at process start and never
\* accepts a request.
C7_NoKeyNoService ==
    KeyMissing(api_key) => (app # "serving" /\ http = NoExchange)

\* C8: when the model's output is valid JSON, parse_user_intent returns a mapping
\* whose keys are among the SearchParams keys (a key outside them is ignored) and
\* among the keys the model emitted (a key it omits is absent). Stated for the
\* outputs that are JSON objects, the outputs that have keys.
C8_ResultKeysWithinSearchParams ==
    (op = "parse_user_intent" /\ pc = "returned" /\ HasOutputText
        /\ json_loads(OutputText).ok /\ json_loads(OutputText).val.t = "dict") =>
        /\ result.t = "dict"
        /\ DOMAIN result.v \subseteq
              {"q", "category", "start_date", "end_date", "price_max", "location",
               "family_friendly", "outdoor"}
        /\ DOMAIN result.v \subseteq DOMAIN json_loads(OutputText).val.v

\* C9: whenever any part of the model's response is a tool invocation, the result
\* is {text: absent, tool_call: {name, args}} with the name and the arguments the
\* model returned.
C9_AnyToolInvocationIsReturned ==
    (op = "generate_chat_response" /\ Finished /\ response.kind = "response"
        /\ \E i \in 1..Len(response.parts) : response.parts[i].kind = "function_call") =>
        /\ pc = "returned"
        /\ \E i \in 1..Len(response.parts) :
              /\ response.parts[i].kind = "function_call"
              /\ result =
                    Dict([text |-> None,
                          tool_call |->
                              Dict([name |-> Str(<<response.parts[i].name>>),
                                    args |-> Dict(response.parts[i].args)])])

\* C10: every gateway invocation issues exactly one call to the model capability:
\* none is added by a JSON parse failure or by a failure of the model call.
C10_ExactlyOneModelCall ==
    /\ pc \in {"await", "returned", "raised"} => Len(sent) = 1
    /\ pc = "idle" => sent = <<>>

C10_Witness_FallbackAfterOneCall ==
    /\ op = "normalize_events"
    /\ pc = "returned"
    /\ HasOutputText
    /\ ~json_loads(OutputText).ok
    /\ result = List(<<>>)
    /\ Len(sent) = 1

====
